---------------------------- MODULE Spec2Model ----------------------------
(***************************************************************************)
(* Model of src/api.py: the FastAPI application that exposes the DOLPHIN   *)
(* recognition model.  The application has two routes, POST /process/      *)
(* (process_file_endpoint) and GET / (root).  Each POST request runs the   *)
(* whole pipeline inside the handler: extension check, upload save,        *)
(* results-directory creation, process_page, reading the requested output  *)
(* file, and the finally block that removes the temporary upload.          *)
(*                                                                         *)
(* A request is modelled by its handler's local variables and its position *)
(* (pc).  Requests interleave at stage boundaries: every stage is a        *)
(* blocking call, and several server workers share one filesystem.  The    *)
(* step that returns or raises also runs the finally block.                *)
(***************************************************************************)
EXTENDS Integers, Sequences, FiniteSets, TLC

(* ------------------------------ bounds -------------------------------- *)

\* number of POST /process/ requests the model follows
NumReqs == 2

Reqs == 1..NumReqs

(* ------------------------- program constants -------------------------- *)

TEMP_UPLOADS_DIR == "temp_uploads"
RESULTS_DIR == "results"

\* line 74: the accepted extensions, compared after lower()
AllowedExtensions == {".png", ".jpg", ".jpeg", ".bmp", ".tiff"}

\* the application with a status-query route added
RoutesWithTaskStatus ==
    {<<"POST", "/process/">>, <<"GET", "/">>, <<"GET", "/task_status/{task_id}">>}

\* the routes registered on app (lines 51 and 172)
Routes == {<<"POST", "/process/">>, <<"GET", "/">>}

(* ------------------------------ inputs -------------------------------- *)

\* UploadFile.filename; NoFilename stands for Python's None
NoFilename == "<None>"
Filenames == {NoFilename, "doc.PNG", "doc.txt"}

\* output_format: Query(enum=...) documents json and markdown but does not
\* validate, so any string reaches the handler
OutputFormats == {"json", "markdown", "xml"}

\* str(e) of an exception raised by a stage: the empty string of a bare
\* Exception() is the shortest one
ExcMessages == {<<>>}

(* --------------------------- pure helpers ----------------------------- *)

\* os.path.splitext(filename)[1]
splitext_ext(filename) ==
    CASE filename = "doc.png" -> ".png"
      [] filename = "doc.PNG" -> ".PNG"
      [] filename = "doc.txt" -> ".txt"
      [] OTHER -> ""

\* the extension compared as written
lower_skipped(ext) == ext

\* str.lower() on an extension
lower(ext) ==
    CASE ext = ".PNG" -> ".png"
      [] OTHER -> ext

\* str(uuid.uuid4()) as called by request r: distinct calls give distinct
\* identifiers
uuid4(r) == 100 + r

\* the None of a path-valued local
NoPath == <<>>

\* the upload saved under a name that does not hold the identifier
UploadPathWithoutId(id, ext) == <<TEMP_UPLOADS_DIR, 0, ext>>

\* os.path.join(TEMP_UPLOADS_DIR, f"{request_id}{file_extension}")
UploadPath(id, ext) == <<TEMP_UPLOADS_DIR, id, ext>>

\* os.path.join(RESULTS_DIR, request_id)
OutputSaveDir(id) == <<RESULTS_DIR, id>>

\* os.path.join(output_save_dir, "markdown", f"{base_filename}.md"), where
\* base_filename = splitext(unique_upload_filename)[0] = request_id
MarkdownFilePath(save_dir, id) == save_dir \o <<"markdown", id, ".md">>

\* the json path process_page reports: save_dir/recognition_json/<image name>.json
JsonPath(save_dir, id) == save_dir \o <<"recognition_json", id, ".json">>

\* HTTPException(status_code, detail); detail is a sequence of text pieces
HTTPException(code, detail) == [status_code |-> code, detail |-> detail]
NoExc == [status_code |-> 0, detail |-> <<>>]

\* a response that names the task instead of carrying the content
ResponseWithoutContent(media, content) == [media |-> media, content |-> "task_id"]

\* a response object returned by the handler
Response(media, content) == [media |-> media, content |-> content]
NoResponse == [media |-> "none", content |-> "none"]

\* a parser that accepts any text
json_load_lenient(text) == [ok |-> TRUE, value |-> "json-value"]

\* json.load of a file's text: a parsed value, or a failure
json_load(text) ==
    IF text = "json-text" THEN [ok |-> TRUE, value |-> "json-value"]
    ELSE [ok |-> FALSE, value |-> "none"]

(* ------------------------------- state -------------------------------- *)

VARIABLES
    pc,               \* position of each request's handler
    file,             \* file.filename of each request
    output_format,    \* the output_format query parameter
    request_id,       \* line 66
    upload_file_path, \* lines 65 and 79
    output_save_dir,  \* line 90
    json_path,        \* line 101
    exc,              \* the HTTPException the handler is raising, or NoExc
    retval,           \* the response the handler is returning, or NoResponse
    fs,               \* the filesystem: existing path -> content
    calls,            \* per request, the stages executed so far, in order
    wrote,            \* per request, the paths it has created or written
    lastGet,          \* the last GET request and its answer
    cleanup           \* per request, what the finally block did with the upload

vars == <<pc, file, output_format, request_id, upload_file_path,
          output_save_dir, json_path, exc, retval, fs, calls, wrote,
          lastGet, cleanup>>

locals == <<file, output_format, request_id, upload_file_path,
            output_save_dir, json_path>>

\* request_id before line 66 has run
NoId == 0
NoGet == [path |-> <<>>, status_code |-> 0, body |-> <<>>]

Init ==
    /\ pc = [r \in Reqs |-> "idle"]
    /\ file = [r \in Reqs |-> NoFilename]
    /\ output_format = [r \in Reqs |-> "json"]
    /\ request_id = [r \in Reqs |-> NoId]
    /\ upload_file_path = [r \in Reqs |-> NoPath]
    /\ output_save_dir = [r \in Reqs |-> NoPath]
    /\ json_path = [r \in Reqs |-> NoPath]
    /\ exc = [r \in Reqs |-> NoExc]
    /\ retval = [r \in Reqs |-> NoResponse]
    /\ fs = << >>
    /\ calls = [r \in Reqs |-> <<>>]
    /\ wrote = [r \in Reqs |-> {}]
    /\ lastGet = NoGet
    /\ cleanup = [r \in Reqs |-> "none"]

(* ------------------------- handler fragments ------------------------ *)

\* f with the local of request r set to v
SetLocal(f, r, v) == [f EXCEPT ![r] = v]

\* the stages a request has executed, with one more
Called(r, stage) == [calls EXCEPT ![r] = Append(@, stage)]

\* the exception left to the framework's own error page
UnexpectedErrorUncaught(msg) == HTTPException(500, <<"Internal Server Error">>)

\* lines 149-151: any other exception becomes a 500 with a generic detail
UnexpectedError(msg) ==
    HTTPException(500, <<"An unexpected error occurred: ">> \o msg)

\* line 76
InvalidFileType(ext) ==
    HTTPException(400, <<"Invalid file type. Supported types: PNG, JPG, JPEG, BMP, TIFF. Got: ", ext>>)

\* the detail built from str(e) alone
SaveFailedBare(msg) == HTTPException(500, msg)

\* line 87
SaveFailed(msg) ==
    HTTPException(500, <<"Failed to save uploaded file: ">> \o msg)

\* line 96
MakedirsFailed(msg) ==
    HTTPException(500, <<"Failed to create output directory: ">> \o msg)

\* line 110
ModelFileNotFound(msg) ==
    HTTPException(404, <<"File not found during model processing: ">> \o msg)

\* the engine's failure reported as a success status
ModelProcessingErrorAs200(msg) ==
    HTTPException(200, <<"Error during DOLPHIN model processing: ">> \o msg)

\* line 113
ModelProcessingError(msg) ==
    HTTPException(500, <<"Error during DOLPHIN model processing: ">> \o msg)

\* the missing result reported with the engine's file-not-found detail
MarkdownNotFoundAsModelError(path) ==
    HTTPException(404, <<"File not found during model processing: ">> \o path)

\* line 123
MarkdownNotFound(path) ==
    HTTPException(404, <<"Markdown file not found: ">> \o path)

\* line 131
MarkdownReadFailed(msg) ==
    HTTPException(500, <<"Failed to read Markdown file: ">> \o msg)

\* line 137
JsonNotFound(path) ==
    HTTPException(404, <<"JSON results file not found: ">> \o path)

\* line 145
JsonReadFailed(msg) ==
    HTTPException(500, <<"Failed to read or parse JSON results file: ">> \o msg)

\* os.path.exists
exists(path) == path \in DOMAIN fs

\* the filesystem after path is created or overwritten with content
WriteFile(files, path, content) == (path :> content) @@ files

\* the filesystem after os.remove(path)
RemoveFile(files, path) == [q \in (DOMAIN files) \ {path} |-> files[q]]

\* what a successful process_page call leaves under save_dir: the text of
\* recognition_json/<id>.json and of markdown/<id>.md ("absent": not written)
EngineOutputs ==
    { [json |-> "json-text", md |-> "md-text"],
      [json |-> "not-json", md |-> "md-text"],
      [json |-> "absent", md |-> "absent"] }

\* the two output subdirectories of a results directory
MarkdownDir(save_dir) == save_dir \o <<"markdown">>
JsonDir(save_dir) == save_dir \o <<"recognition_json">>

\* the files of one engine output, written under save_dir: the two
\* subdirectories are created, then the files of the output
process_page_writes(files, save_dir, id, out) ==
    LET withDirs == WriteFile(WriteFile(files, MarkdownDir(save_dir), "dir"),
                              JsonDir(save_dir), "dir")
        withJson == IF out.json = "absent" THEN withDirs
                    ELSE WriteFile(withDirs, JsonPath(save_dir, id), out.json)
    IN  IF out.md = "absent" THEN withJson
        ELSE WriteFile(withJson, MarkdownFilePath(save_dir, id), out.md)

\* the paths process_page_writes creates
process_page_paths(save_dir, id, out) ==
    {MarkdownDir(save_dir), JsonDir(save_dir)}
    \cup (IF out.json = "absent" THEN {} ELSE {JsonPath(save_dir, id)})
    \cup (IF out.md = "absent" THEN {} ELSE {MarkdownFilePath(save_dir, id)})

\* a finally block that closes the upload and leaves the temporary file
AfterFinallyKeepsUpload(path, files) ==
    {[fs |-> files, cleanup |-> "skipped"]}

\* lines 159-165: the filesystems the finally block can leave, from files:
\* the temporary upload is removed ("removed"), or os.remove fails and is
\* only logged ("failed"), or there is no file to remove ("skipped")
AfterFinally(path, files) ==
    IF path # NoPath /\ path \in DOMAIN files
    THEN {[fs |-> RemoveFile(files, path), cleanup |-> "removed"],
          [fs |-> files, cleanup |-> "failed"]}
    ELSE {[fs |-> files, cleanup |-> "skipped"]}

\* the failing stage is run again instead of leaving the handler
LeaveAndRetry(r, files) ==
    /\ fs' = files
    /\ UNCHANGED <<pc, locals, cleanup>>

\* lines 152-165 and the end of the call: the finally block runs on files,
\* the handler's frame is dropped
Leave(r, files) ==
    /\ \E after \in AfterFinally(upload_file_path[r], files) :
          /\ fs' = after.fs
          /\ cleanup' = SetLocal(cleanup, r, after.cleanup)
    /\ pc' = SetLocal(pc, r, "done")
    /\ file' = SetLocal(file, r, NoFilename)
    /\ output_format' = SetLocal(output_format, r, "json")
    /\ request_id' = SetLocal(request_id, r, NoId)
    /\ upload_file_path' = SetLocal(upload_file_path, r, NoPath)
    /\ output_save_dir' = SetLocal(output_save_dir, r, NoPath)
    /\ json_path' = SetLocal(json_path, r, NoPath)

\* the exception kept in one module-level variable shared by all requests
RaiseShared(r, e, files) ==
    /\ exc' = [s \in Reqs |-> e]
    /\ UNCHANGED retval
    /\ Leave(r, files)

\* a handler without lines 147-148: the generic clause also catches the
\* HTTPException of a stage and wraps it in a 500
RaiseAs500(r, e, files) ==
    /\ exc' = SetLocal(exc, r, UnexpectedError(e.detail))
    /\ UNCHANGED retval
    /\ Leave(r, files)

\* `raise HTTPException(...)` inside the try block: lines 147-148 re-raise it
\* unchanged, the finally block runs and the exception leaves the handler
Raise(r, e, files) ==
    /\ exc' = SetLocal(exc, r, e)
    /\ UNCHANGED retval
    /\ Leave(r, files)

\* `return response` inside the try block: the finally block runs and the
\* response leaves the handler
Return(r, response, files) ==
    /\ retval' = SetLocal(retval, r, response)
    /\ UNCHANGED exc
    /\ Leave(r, files)

(* ------------------------------ actions ------------------------------- *)

\* lines 52-68: the request arrives, its parameters are bound and the
\* request identifier is generated
Submit(r) ==
    /\ pc[r] = "idle"
    /\ \E fn \in Filenames, fmt \in OutputFormats :
          /\ file' = SetLocal(file, r, fn)
          /\ output_format' = SetLocal(output_format, r, fmt)
    /\ request_id' = SetLocal(request_id, r, uuid4(r))
    /\ pc' = SetLocal(pc, r, "accepted")
    /\ UNCHANGED <<upload_file_path, output_save_dir, json_path, exc, retval,
                   fs, calls, wrote, lastGet, cleanup>>

\* an exception raised before the try block is entered
BeginTryRaising(r) ==
    /\ pc[r] = "accepted"
    /\ Raise(r, UnexpectedError(<<>>), fs)
    /\ UNCHANGED <<calls, wrote, lastGet>>

\* line 70: the handler enters its try block
BeginTry(r) ==
    /\ pc[r] = "accepted"
    /\ pc' = SetLocal(pc, r, "check_ext")
    /\ UNCHANGED <<locals, exc, retval, fs, calls, wrote, lastGet, cleanup>>

\* lines 72-79: the extension check and the upload path
CheckExt(r) ==
    /\ pc[r] = "check_ext"
    /\ calls' = Called(r, "check_ext")
    /\ IF file[r] = NoFilename
       THEN \* os.path.splitext(None) raises TypeError: no inner handler
            Raise(r, UnexpectedError(<<"expected str, bytes or os.PathLike object, not NoneType">>), fs)
       ELSE IF lower(splitext_ext(file[r])) \notin AllowedExtensions
       THEN Raise(r, InvalidFileType(splitext_ext(file[r])), fs)
       ELSE /\ upload_file_path' =
                   SetLocal(upload_file_path, r,
                            UploadPath(request_id[r], splitext_ext(file[r])))
            /\ pc' = SetLocal(pc, r, "save")
            /\ UNCHANGED <<file, output_format, request_id, output_save_dir,
                           json_path, exc, retval, fs, cleanup>>
    /\ UNCHANGED <<wrote, lastGet>>

\* lines 81-87: the upload is copied to upload_file_path
SaveUpload(r) ==
    /\ pc[r] = "save"
    /\ calls' = Called(r, "save")
    /\ \/ /\ fs' = WriteFile(fs, upload_file_path[r], "upload")
          /\ wrote' = SetLocal(wrote, r, wrote[r] \cup {upload_file_path[r]})
          /\ pc' = SetLocal(pc, r, "mkdir")
          /\ UNCHANGED <<locals, exc, retval, cleanup>>
       \/ \* open() or copyfileobj fails; the file may have been created
          \E msg \in ExcMessages :
             \/ /\ Raise(r, SaveFailed(msg), WriteFile(fs, upload_file_path[r], "partial"))
                /\ wrote' = SetLocal(wrote, r, wrote[r] \cup {upload_file_path[r]})
             \/ /\ Raise(r, SaveFailed(msg), fs)
                /\ UNCHANGED wrote
    /\ UNCHANGED lastGet

\* lines 89-96: the results directory of the request
MakeOutputDir(r) ==
    /\ pc[r] = "mkdir"
    /\ calls' = Called(r, "mkdir")
    /\ \/ /\ output_save_dir' = SetLocal(output_save_dir, r, OutputSaveDir(request_id[r]))
          /\ fs' = WriteFile(fs, OutputSaveDir(request_id[r]), "dir")
          /\ wrote' = SetLocal(wrote, r, wrote[r] \cup {OutputSaveDir(request_id[r])})
          /\ pc' = SetLocal(pc, r, "engine")
          /\ UNCHANGED <<file, output_format, request_id, upload_file_path,
                         json_path, exc, retval, cleanup>>
       \/ \E msg \in ExcMessages :
             /\ Raise(r, MakedirsFailed(msg), fs)
             /\ UNCHANGED wrote
    /\ UNCHANGED lastGet

\* lines 98-113: the recognition engine
ProcessPage(r) ==
    /\ pc[r] = "engine"
    /\ calls' = Called(r, "engine")
    /\ \/ \E out \in EngineOutputs :
             /\ fs' = process_page_writes(fs, output_save_dir[r], request_id[r], out)
             /\ wrote' = SetLocal(wrote, r, wrote[r] \cup
                             process_page_paths(output_save_dir[r], request_id[r], out))
             /\ json_path' = SetLocal(json_path, r,
                                      JsonPath(output_save_dir[r], request_id[r]))
             /\ pc' = SetLocal(pc, r, "harvest")
             /\ UNCHANGED <<file, output_format, request_id, upload_file_path,
                            output_save_dir, exc, retval, cleanup>>
       \/ \E msg \in ExcMessages :
             /\ \/ Raise(r, ModelFileNotFound(msg), fs)
                \/ Raise(r, ModelProcessingError(msg), fs)
             /\ UNCHANGED wrote
    /\ UNCHANGED lastGet

\* a markdown branch that answers an absent file with an empty result
HarvestMarkdownEmptyResult(r) ==
    LET markdown_file_path == MarkdownFilePath(output_save_dir[r], request_id[r])
    IN  IF ~ exists(markdown_file_path)
        THEN /\ calls' = Called(r, "exists")
             /\ Return(r, Response("text/markdown", ""), fs)
        ELSE /\ calls' = [calls EXCEPT ![r] = @ \o <<"exists", "read">>]
             /\ \/ Return(r, Response("text/markdown", fs[markdown_file_path]), fs)
                \/ \E msg \in ExcMessages : Raise(r, MarkdownReadFailed(msg), fs)

\* lines 116-131: the markdown branch
HarvestMarkdown(r) ==
    LET markdown_file_path == MarkdownFilePath(output_save_dir[r], request_id[r])
    IN  IF ~ exists(markdown_file_path)
        THEN /\ calls' = Called(r, "exists")
             /\ Raise(r, MarkdownNotFound(markdown_file_path), fs)
        ELSE /\ calls' = [calls EXCEPT ![r] = @ \o <<"exists", "read">>]
             /\ \/ Return(r, Response("text/markdown", fs[markdown_file_path]), fs)
                \/ \E msg \in ExcMessages : Raise(r, MarkdownReadFailed(msg), fs)

\* lines 133-145: the branch of every other output_format
HarvestJson(r) ==
    IF ~ exists(json_path[r])
    THEN /\ calls' = Called(r, "exists")
         /\ Raise(r, JsonNotFound(json_path[r]), fs)
    ELSE /\ calls' = [calls EXCEPT ![r] = @ \o <<"exists", "read">>]
         /\ \/ /\ json_load(fs[json_path[r]]).ok
               /\ Return(r, Response("application/json",
                                     json_load(fs[json_path[r]]).value), fs)
            \/ /\ ~ json_load(fs[json_path[r]]).ok
               /\ Raise(r, JsonReadFailed(<<"Expecting value">>), fs)
            \/ \E msg \in ExcMessages : Raise(r, JsonReadFailed(msg), fs)

\* lines 115-145: the requested output is read and returned
Harvest(r) ==
    /\ pc[r] = "harvest"
    /\ IF output_format[r] = "markdown" THEN HarvestMarkdown(r) ELSE HarvestJson(r)
    /\ UNCHANGED <<wrote, lastGet>>

\* the paths a client asks with GET
TaskStatusPath(id) == <<"/task_status/", id>>
GetPaths == {<<"/">>, TaskStatusPath(uuid4(1))}

\* the route template a path matches
RouteOf(method, path) ==
    IF path = <<"/">> THEN <<method, "/">>
    ELSE IF path = <<"/process/">> THEN <<method, "/process/">>
    ELSE IF Len(path) = 2 /\ path[1] = "/task_status/"
         THEN <<method, "/task_status/{task_id}">>
         ELSE <<method, "<unmatched>">>

\* an application that serves every path
DispatchEveryPath(method, path) == 200

\* the status the application answers: a registered route is served,
\* anything else is 404 Not Found
Dispatch(method, path) ==
    IF RouteOf(method, path) \in Routes THEN 200 ELSE 404

\* the JSON body of the answer: line 174 for "/", the framework's error
\* body for a path no route matches
ResponseBody(method, path) ==
    IF Dispatch(method, path) = 200
    THEN <<"message", "DOLPHIN API is running">>
    ELSE <<"detail", "Not Found">>

\* a GET that drops what finished requests produced
GetAndForget ==
    /\ \E path \in GetPaths :
          lastGet' = [path |-> path, status_code |-> Dispatch("GET", path),
                      body |-> ResponseBody("GET", path)]
    /\ retval' = [r \in Reqs |-> IF pc[r] = "done" THEN NoResponse ELSE retval[r]]
    /\ UNCHANGED <<pc, locals, exc, fs, calls, wrote, cleanup>>

\* a client sends a GET request (lines 172-174 serve "/")
Get ==
    /\ \E path \in GetPaths :
          lastGet' = [path |-> path, status_code |-> Dispatch("GET", path),
                      body |-> ResponseBody("GET", path)]
    /\ UNCHANGED <<pc, locals, exc, retval, fs, calls, wrote, cleanup>>

Step(r) ==
    \/ Submit(r)
    \/ BeginTry(r)
    \/ CheckExt(r)
    \/ SaveUpload(r)
    \/ MakeOutputDir(r)
    \/ ProcessPage(r)
    \/ Harvest(r)

Next ==
    \/ \E r \in Reqs : Step(r)
    \/ Get

Spec == Init /\ [][Next]_vars

\* the steps of a handler that has been entered: every stage call returns
\* or raises, so a handler that can take its next step eventually takes it
Run(r) ==
    \/ BeginTry(r)
    \/ CheckExt(r)
    \/ SaveUpload(r)
    \/ MakeOutputDir(r)
    \/ ProcessPage(r)
    \/ Harvest(r)

LiveSpec == Init /\ [][Next]_vars /\ \A r \in Reqs : WF_vars(Run(r))

(* ----------------------- the request as a task ------------------------ *)

\* The application keeps no task table.  What it holds about a submission is
\* the handler's position and the response or HTTPException it produces; the
\* properties below read these as the task's record: pending once the
\* identifier is issued (line 66), running inside the try block (line 70),
\* completed when a response is returned, failed when an HTTPException is
\* raised.
status(r) ==
    CASE pc[r] = "idle" -> "none"
      [] pc[r] = "accepted" -> "pending"
      [] pc[r] \in {"check_ext", "save", "mkdir", "engine", "harvest"} -> "running"
      [] pc[r] = "done" /\ exc[r].status_code = 0 -> "completed"
      [] OTHER -> "failed"

\* the result and the error of the record
result(r) == retval[r]
error(r) == exc[r].detail

\* the record of request r
Record(r) == <<status(r), result(r), exc[r]>>

(* ------------------------------ C1 ------------------------------------ *)

StatusOrder ==
    { <<"none", "pending">>, <<"pending", "running">>,
      <<"running", "completed">>, <<"running", "failed">> }

StageOrder == <<"check_ext", "save", "mkdir", "engine", "exists", "read">>

\* C4: every request that entered the try block eventually is completed or
\* failed, and an exception no stage classifies (splitext of a missing
\* filename) is recorded as failed with the generic cause of the outermost
\* handler.
C4_ReachesTerminal ==
    /\ \A r \in Reqs :
          (status(r) = "running") ~> (status(r) \in {"completed", "failed"})
    /\ [][\A r \in Reqs :
             (pc[r] = "check_ext" /\ file[r] = NoFilename /\ pc'[r] # pc[r])
             => /\ status(r)' = "failed"
                /\ exc'[r].status_code = 500
                /\ exc'[r].detail[1] = "An unexpected error occurred: "]_vars

\* a request failed by the outermost handler
C4_Witness ==
    \E r \in Reqs :
       /\ status(r) = "failed"
       /\ exc[r].detail[1] = "An unexpected error occurred: "

(* ------------------------------ C5 ------------------------------------ *)

\* what harvesting can produce
PipelineOutputs == {"md-text", json_load("json-text").value}

StageErrors(stage) ==
    CASE stage = "check_ext" ->
            { <<400, "Invalid file type. Supported types: PNG, JPG, JPEG, BMP, TIFF. Got: ">>,
              <<500, "An unexpected error occurred: ">> }
      [] stage = "save" -> { <<500, "Failed to save uploaded file: ">> }
      [] stage = "mkdir" -> { <<500, "Failed to create output directory: ">> }
      [] stage = "engine" ->
            { <<404, "File not found during model processing: ">>,
              <<500, "Error during DOLPHIN model processing: ">> }
      [] stage = "exists" ->
            { <<404, "Markdown file not found: ">>,
              <<404, "JSON results file not found: ">> }
      [] stage = "read" ->
            { <<500, "Failed to read Markdown file: ">>,
              <<500, "Failed to read or parse JSON results file: ">> }

IsPrefix(s, t) == Len(s) <= Len(t) /\ \A i \in 1..Len(s) : s[i] = t[i]

\* C7: the pipeline stops at the first failing stage.  The stages run at
\* most once and in order; once a request has failed no further stage runs
\* for it and it writes nothing more; a request that failed in the engine
\* invocation carries a model-processing failure and never looked for or
\* read a result file.
C7_StopsAtFirstFailure ==
    /\ [](\A r \in Reqs :
            /\ IsPrefix(calls[r], StageOrder)
            /\ exc[r].status_code # 0 => status(r) = "failed"
            /\ (exc[r].status_code # 0
                   /\ exc[r].detail[1] \in
                         { "File not found during model processing: ",
                           "Error during DOLPHIN model processing: " })
                  <=> (exc[r].status_code # 0
                         /\ calls[r] = <<"check_ext", "save", "mkdir", "engine">>))
    /\ [][\A r \in Reqs :
             exc[r].status_code # 0
             => /\ calls'[r] = calls[r]
                /\ wrote'[r] = wrote[r]
                /\ exc'[r] = exc[r]]_vars

\* a request that failed in the engine invocation
C7_Witness ==
    \E r \in Reqs :
       /\ status(r) = "failed"
       /\ calls[r] = <<"check_ext", "save", "mkdir", "engine">>

(* ------------------------------ C8 ------------------------------------ *)

\* C8: under any interleaving, every path a request creates or writes
\* (its upload file, its results directory and the files in it) holds the
\* request's own identifier, and no two requests write the same path.
C8_WorkspacesDisjoint ==
    \A r, s \in Reqs :
       /\ \A p \in wrote[r] : p[2] = uuid4(r)
       /\ r # s => wrote[r] \cap wrote[s] = {}
       /\ (r # s /\ upload_file_path[r] # NoPath)
             => upload_file_path[r] # upload_file_path[s]

\* two requests that have both saved an upload and received engine output
\* and are both still running
C8_Witness ==
    \E r, s \in Reqs :
       /\ r # s
       /\ pc[r] = "harvest" /\ pc[s] = "harvest"
       /\ Cardinality(wrote[r]) = 6 /\ Cardinality(wrote[s]) = 6

(* ------------------------------ C9 ------------------------------------ *)

C11_InvalidFormatRejected ==
    [][\A r \in Reqs :
          (pc[r] = "harvest" /\ output_format[r] \notin {"markdown", "json"}
             /\ pc'[r] = "done")
          => /\ exc'[r].status_code # 0
             /\ retval'[r] = NoResponse
             /\ calls'[r] = calls[r]]_vars

(* ------------------------------ C12 ----------------------------------- *)

ExpectedFile(r) ==
    IF output_format[r] = "markdown"
    THEN MarkdownFilePath(output_save_dir[r], request_id[r])
    ELSE json_path[r]

\* the subdirectory that holds it
ExpectedDir(r) ==
    IF output_format[r] = "markdown"
    THEN MarkdownDir(output_save_dir[r])
    ELSE JsonDir(output_save_dir[r])

FailureKind(r) == <<exc[r].status_code, exc[r].detail[1]>>

\* the request failed in the engine invocation
FailedInEngine(r) ==
    /\ status(r) = "failed"
    /\ calls[r] = <<"check_ext", "save", "mkdir", "engine">>

\* the engine returned and the expected result file was then not found
FailedResultMissing(r) ==
    /\ status(r) = "failed"
    /\ calls[r] = <<"check_ext", "save", "mkdir", "engine", "exists">>

\* C14: when the engine succeeded and the expected output is absent, the
\* request fails with a result-missing failure (404, "... not found: "),
\* and that failure differs from every engine-invocation failure.
C14_ResultMissingDistinct ==
    \A r \in Reqs :
       FailedResultMissing(r)
       => /\ FailureKind(r) \in {<<404, "Markdown file not found: ">>,
                                  <<404, "JSON results file not found: ">>}
          /\ \A s \in Reqs : FailedInEngine(s) => FailureKind(s) # FailureKind(r)

\* one request failed on a missing result while another failed, with the
\* same status code 404, in the engine invocation
C14_Witness ==
    \E r, s \in Reqs :
       /\ FailedResultMissing(r)
       /\ FailedInEngine(s)
       /\ exc[r].status_code = 404 /\ exc[s].status_code = 404

(* ------------------------------ C15 ----------------------------------- *)

\* the bodies a status answer could carry
StatusBodies == {<<"status", st>> : st \in {"pending", "running", "completed", "failed"}}

\* C15: a status query for an identifier that no submission has been given
\* is answered 404 with an error body, which is none of the task statuses,
\* "failed" included (the application has no status route, so the answer
\* is the framework's for an unmatched path).
C15_UnknownIdNotFound ==
    [][\A r \in Reqs :
          (pc[r] = "idle" /\ lastGet' # lastGet
             /\ lastGet'.path = TaskStatusPath(uuid4(r)))
          => /\ lastGet'.status_code = 404
             /\ lastGet'.body = <<"detail", "Not Found">>
             /\ lastGet'.body \notin StatusBodies
             /\ Record(r)' = Record(r)
             /\ status(r)' = "none"]_vars

\* a status query for an identifier not yet given to any submission,
\* while another request has failed
C15_Witness ==
    /\ pc[1] = "idle"
    /\ lastGet.path = TaskStatusPath(uuid4(1))
    /\ lastGet.status_code = 404
    /\ \E s \in Reqs : status(s) = "failed"

(* ------------------------------ C16 ----------------------------------- *)

\* the temporary upload files request r has written
UploadsOf(r) == {p \in wrote[r] : p[1] = TEMP_UPLOADS_DIR}

\* the paths request r has written under the results directory
ResultsOf(r) == {p \in wrote[r] : p[1] = RESULTS_DIR}

CallCount(r, stage) == Cardinality({i \in DOMAIN calls[r] : calls[r][i] = stage})

\* C17: an upload whose extension, compared case-insensitively, is not in
\* the allowed list is rejected with status 400 before any side effect: no
\* file under the upload directory, no results directory, no engine call.
\* The engine is called at most once per request and only after the
\* extension check, the save and the creation of the results directory
\* have succeeded.
C17_RejectedBeforeSideEffects ==
    /\ [](\A r \in Reqs :
            /\ exc[r].status_code = 400
                  => /\ calls[r] = <<"check_ext">>
                     /\ wrote[r] = {}
                     /\ cleanup[r] = "skipped"
                     /\ \A q \in DOMAIN fs : q[2] # uuid4(r)
            /\ CallCount(r, "engine") <= 1
            /\ CallCount(r, "engine") = 1
                  => /\ SubSeq(calls[r], 1, 4) = <<"check_ext", "save", "mkdir", "engine">>
                     /\ UploadPath(uuid4(r), ".PNG") \in wrote[r]
                     /\ OutputSaveDir(uuid4(r)) \in wrote[r])
    /\ [][\A r \in Reqs :
             (pc[r] = "check_ext" /\ pc'[r] # "check_ext")
             => /\ file[r] = "doc.txt"
                   => /\ pc'[r] = "done"
                      /\ exc'[r].status_code = 400
                      /\ fs' = fs
                /\ file[r] = "doc.PNG"
                   => /\ pc'[r] = "save"
                      /\ exc'[r] = NoExc]_vars

\* a request rejected for its extension, and another whose upper-case
\* extension was accepted and which has called the engine
C17_Witness ==
    \E r, s \in Reqs :
       /\ pc[r] = "done" /\ exc[r].status_code = 400
       /\ CallCount(s, "engine") = 1
       /\ UploadPath(uuid4(s), ".PNG") \in wrote[s]

(* ------------------------------ C18 ----------------------------------- *)

\* the status code the source gives each detail text
StatusOfDetail(prefix) ==
    CASE prefix = "Invalid file type. Supported types: PNG, JPG, JPEG, BMP, TIFF. Got: " -> 400
      [] prefix \in {"File not found during model processing: ",
                     "Markdown file not found: ",
                     "JSON results file not found: "} -> 404
      [] OTHER -> 500

\* C18: every exceptional exit of the handler is an HTTPException whose
\* status is 400, 404 or 500, and it carries the status and the detail the
\* failing stage gave it; the generic 500 of the outermost handler appears
\* only for an exception that is not an HTTPException (here the TypeError
\* of a missing filename), never in place of a stage's 400 or 404.
C18_StatusDeliveredUnchanged ==
    /\ [](\A r \in Reqs :
            exc[r].status_code # 0
            => /\ pc[r] = "done" /\ retval[r] = NoResponse
               /\ exc[r].status_code \in {400, 404, 500}
               /\ exc[r].status_code = StatusOfDetail(exc[r].detail[1])
               /\ exc[r].detail[1] = "An unexpected error occurred: "
                     => calls[r] = <<"check_ext">>)
    /\ [][\A r \in Reqs :
             (pc[r] = "check_ext" /\ pc'[r] = "done")
             => (exc'[r].detail[1] = "An unexpected error occurred: "
                   <=> file[r] = NoFilename)]_vars

\* one request left with a stage's 404 and another with the generic 500
C18_Witness ==
    \E r, s \in Reqs :
       /\ exc[r].status_code = 404
       /\ exc[s].status_code = 500
       /\ exc[s].detail[1] = "An unexpected error occurred: "

=============================================================================
